---- MODULE Spec2Model ----
(***************************************************************************)
(* Weighted routing and capacity scaling for a pool of SageMaker endpoint   *)
(* variants: the router lambda (router-lambda.py), the scaling activity     *)
(* lambda (asg-activity-lambda.py) and the endpoint status lambda           *)
(* (endpoint-state-lambda.py), over one DynamoDB table.                     *)
(***************************************************************************)
EXTENDS Integers, Sequences, FiniteSets, TLC

VARIABLES
    config,     \* the pool config item of the table (id = config_id)
    counter,    \* the request counter item of the table (id = counter_id)
    router,     \* per router invocation: where it is and what it has computed
    log,        \* router invocations in the order of their counter updates
    counter0,   \* the counter item as it was before the first invocation
    state,      \* the ScalingState item of the table (id = dimensionId)
    now,        \* the wall clock, in milliseconds
    last,       \* the latest scaling invocation: its input and what it did
    plane,      \* the endpoint control plane: the requests it has yet to fulfil
    workers     \* per overlapping invocation: where it is and what it has read

routerVars == <<counter, router, log, counter0>>
scalingVars == <<state, now, last, plane, workers>>
vars ==
    <<config, counter, router, log, counter0, state, now, last, plane, workers>>

(***************************************************************************)
(* Bounds of the model.                                                     *)
(***************************************************************************)
NumRouters == 2
MaxWeight == 2
MaxCounterInit == 8
MaxClockSample == 3
MaxCapacity == 2
MaxStaleWindows == 1
MaxInflight == 3

Routers == 1..NumRouters

(***************************************************************************)
(* Sequence helpers (Python's sum over a list).                             *)
(***************************************************************************)
RECURSIVE SumTo(_, _)
SumTo(s, n) == IF n = 0 THEN 0 ELSE SumTo(s, n - 1) + s[n]

Sum(s) == SumTo(s, Len(s))

(***************************************************************************)
(* router-lambda.py                                                         *)
(***************************************************************************)
FallbackModulus == 1000

DefaultServers == <<"server1", "server2", "server3">>
DefaultWeights == <<5, 3, 2>>

NoConfig == [exists |-> FALSE, servers |-> <<>>, weights |-> <<>>,
             current_instance_count |-> <<>>]

DefaultConfig == [exists |-> TRUE, servers |-> DefaultServers,
                  weights |-> DefaultWeights,
                  current_instance_count |-> DefaultWeights]

\* What get_server_config hands back: the lists, or the error it raised.
CfgOk(servers, weights) ==
    [ok |-> TRUE, servers |-> servers, weights |-> weights,
     error |-> "", detail |-> ""]

CfgError(error, detail) ==
    [ok |-> FALSE, servers |-> <<>>, weights |-> <<>>,
     error |-> error, detail |-> detail]

GetServerConfigNoLengthCheck(item, storeUp) ==
    IF ~storeUp THEN CfgError("DynamoDB error", "ClientError")
    ELSE IF item.exists
    THEN IF item.servers = <<>> \/ item.weights = <<>>
         THEN CfgError("Failed to retrieve server configuration",
                       "Invalid server configuration in database")
         ELSE CfgOk(item.servers, item.weights)
    ELSE CfgOk(DefaultServers, DefaultWeights)

\* WeightedLoadBalancer.get_server_config on the item read from the table.
\* The LoadBalancerError raised for an invalid item is raised inside the try
\* block, whose `except Exception` wraps it into another LoadBalancerError.
GetServerConfig(item, storeUp) ==
    IF ~storeUp THEN CfgError("DynamoDB error", "ClientError")
    ELSE IF item.exists
    THEN IF item.servers = <<>> \/ item.weights = <<>>
            \/ Len(item.servers) # Len(item.weights)
         THEN CfgError("Failed to retrieve server configuration",
                       "Invalid server configuration in database")
         ELSE CfgOk(item.servers, item.weights)
    ELSE CfgOk(DefaultServers, DefaultWeights)

\* The item get_server_config leaves in the table (the default, when absent).
ConfigAfterGet(item, storeUp) ==
    IF storeUp /\ ~item.exists THEN DefaultConfig ELSE item

FallbackCountNoModulus(clockMs) == clockMs

\* The fallback counter value: int(time.time() * 1000) % 1000.
FallbackCount(clockMs) == clockMs % FallbackModulus

\* get_and_increment_counter: UPDATED_OLD of the atomic update, 0 when the
\* item did not exist; on a store error the exception carries fallback_count.
CounterUpdatedNew(item) ==
    IF item.exists THEN item.request_count + 1 ELSE 1

CounterOld(item) == IF item.exists THEN item.request_count ELSE 0

CounterNotIncremented(item) ==
    [exists |-> TRUE, request_count |-> CounterOld(item)]

CounterAfterUpdate(item) ==
    [exists |-> TRUE, request_count |-> CounterOld(item) + 1]

RECURSIVE WalkStrict(_, _, _, _)
WalkStrict(weights, position, i, cumulative) ==
    IF i > Len(weights) THEN 0
    ELSE LET cum == cumulative + weights[i]
         IN  IF position < cum THEN i
             ELSE WalkStrict(weights, position, i + 1, cum)

\* The cumulative walk of get_next_server; 0 when the loop falls through.
RECURSIVE Walk(_, _, _, _)
Walk(weights, position, i, cumulative) ==
    IF i > Len(weights) THEN 0
    ELSE LET cum == cumulative + weights[i]
         IN  IF position <= cum THEN i
             ELSE Walk(weights, position, i + 1, cum)

PositionZeroBased(request_count, total_weight) ==
    request_count % total_weight

Position(request_count, total_weight) == (request_count % total_weight) + 1

NoDecision(statusCode, error, detail) ==
    [ok |-> FALSE, statusCode |-> statusCode, error |-> error,
     detail |-> detail, server |-> "", request_count |-> -1,
     warning |-> FALSE]

\* get_next_server once the config and the counter value are in hand.
GetNextServer(cfg, request_count) ==
    IF ~cfg.ok THEN NoDecision(500, cfg.error, cfg.detail)
    ELSE LET total_weight == Sum(cfg.weights)
         IN  IF total_weight <= 0
             THEN NoDecision(500, "Invalid server weights configuration", "")
             ELSE LET i == Walk(cfg.weights,
                                Position(request_count, total_weight), 1, 0)
                  IN  [ok |-> TRUE, statusCode |-> 200, error |-> "",
                       detail |-> "",
                       server |-> IF i = 0 THEN cfg.servers[1]
                                  ELSE cfg.servers[i],
                       request_count |-> request_count + 1,
                       warning |-> (i = 0)]

(***************************************************************************)
(* Router invocations.  path records which counter path the invocation took *)
(* and observed the counter value it used; neither is part of the result.   *)
(***************************************************************************)
RouterStart ==
    [pc |-> "start", cfg |-> CfgError("", ""), path |-> "none",
     observed |-> -1, result |-> NoDecision(0, "", "")]

\* handler -> get_next_server -> get_server_config: one read of the table
\* (and the put of the default config when there is none).
RouterReadConfig(p) ==
    /\ router[p].pc = "start"
    /\ \E storeUp \in BOOLEAN :
         LET cfg == GetServerConfig(config, storeUp)
         IN  /\ config' = ConfigAfterGet(config, storeUp)
             /\ router' = [router EXCEPT ![p] =
                    IF cfg.ok
                    THEN [@ EXCEPT !.pc = "config", !.cfg = cfg]
                    ELSE [@ EXCEPT !.pc = "done", !.cfg = cfg,
                                   !.result = GetNextServer(cfg, 0)]]
    /\ UNCHANGED <<counter, log, counter0, scalingVars>>

\* get_and_increment_counter succeeds: the atomic update, then the selection.
RouterCount(p) ==
    /\ router[p].pc = "config"
    /\ LET c == CounterOld(counter)
       IN  /\ counter' = CounterAfterUpdate(counter)
           /\ router' = [router EXCEPT ![p] =
                  [@ EXCEPT !.pc = "done", !.path = "exact", !.observed = c,
                            !.result = GetNextServer(router[p].cfg, c)]]
           /\ log' = Append(log, p)
    /\ UNCHANGED <<config, counter0, scalingVars>>

ClockSamples ==
    (0..MaxClockSample) \cup {FallbackModulus - 1}
        \cup {FallbackModulus + k : k \in 0..MaxClockSample}

\* get_and_increment_counter fails: the counter is untouched and the
\* selection uses the fallback value carried by the exception.
RouterFallback(p) ==
    /\ router[p].pc = "config"
    /\ \E clockMs \in ClockSamples :
         LET c == FallbackCount(clockMs)
         IN  router' = [router EXCEPT ![p] =
                 [@ EXCEPT !.pc = "done", !.path = "fallback",
                           !.observed = c,
                           !.result = GetNextServer(router[p].cfg, c)]]
    /\ UNCHANGED <<config, counter, log, counter0, scalingVars>>

RouterNext ==
    \E p \in Routers :
        \/ RouterReadConfig(p)
        \/ RouterCount(p)
        \/ RouterFallback(p)

(***************************************************************************)
(* asg-activity-lambda.py                                                   *)
(***************************************************************************)
StaleMs == 25 * 60 * 1000

TimeoutReason ==
    "Scaling activity stayed in Pending or InProgress for more than 25 minutes"

ScalingStatuses == {"Pending", "InProgress", "Successful", "Failed"}

\* One update_endpoint_weights_and_capacities request: the variant's endpoint
\* is <resourceName>-<server>.
Call(server, count) == [server |-> server, count |-> count]

\* list.index(x): the first position holding x, 0 when there is none
\* (Python raises ValueError).
RECURSIVE IndexFrom(_, _, _)
IndexFrom(s, x, i) ==
    IF i > Len(s) THEN 0
    ELSE IF s[i] = x THEN i ELSE IndexFrom(s, x, i + 1)

Index(s, x) == IndexFrom(s, x, 1)

DrainWithoutGuard(servers, counts, i, delta) ==
    IF i > Len(servers) THEN <<>>
    ELSE <<Call(servers[i], counts[i] + delta)>>

RECURSIVE DrainKeepsDelta(_, _, _, _)
DrainKeepsDelta(servers, counts, i, delta) ==
    IF i > Len(servers) THEN <<>>
    ELSE IF counts[i] > -delta
    THEN <<Call(servers[i], counts[i] + delta)>>
    ELSE IF counts[i] > 0
    THEN <<Call(servers[i], 0)>>
             \o DrainKeepsDelta(servers, counts, i + 1, delta)
    ELSE DrainKeepsDelta(servers, counts, i + 1, delta)

\* The delta < 0 loop of update_scaling from backend i on: the first backend
\* holding more than the remaining reduction takes it, the ones before it go
\* to 0.
RECURSIVE Drain(_, _, _, _)
Drain(servers, counts, i, delta) ==
    IF i > Len(servers) THEN <<>>
    ELSE IF counts[i] > -delta
    THEN <<Call(servers[i], counts[i] + delta)>>
    ELSE IF counts[i] > 0
    THEN <<Call(servers[i], 0)>>
             \o Drain(servers, counts, i + 1, delta + counts[i])
    ELSE Drain(servers, counts, i + 1, delta)

\* The faults an invocation meets: failAt = k makes its k-th control-plane
\* request raise (0: none); the other flags are the table's get of the config
\* item, put of the config item, get of the state item and put of the state
\* item.
Env(failAt, configUp, configPutUp, stateUp, writeUp) ==
    [failAt |-> failAt, configUp |-> configUp, configPutUp |-> configPutUp,
     stateUp |-> stateUp, writeUp |-> writeUp]

AllUp == Env(0, TRUE, TRUE, TRUE, TRUE)

\* One fault at a time; the scaling activity lambda never puts the config.
AsgEnvs ==
    {AllUp, Env(1, TRUE, TRUE, TRUE, TRUE), Env(2, TRUE, TRUE, TRUE, TRUE),
     Env(0, FALSE, TRUE, TRUE, TRUE), Env(0, TRUE, TRUE, FALSE, TRUE),
     Env(0, TRUE, TRUE, TRUE, FALSE)}

\* The faults the endpoint status lambda is run against, one at a time: its
\* one control-plane request, the get of the config item, the put of the
\* config item.
EventEnvs ==
    {AllUp, Env(1, TRUE, TRUE, TRUE, TRUE), Env(0, FALSE, TRUE, TRUE, TRUE),
     Env(0, TRUE, FALSE, TRUE, TRUE)}

ScalingPlanFirstBackend(cfg, delta) ==
    IF ~cfg.exists THEN [calls |-> <<>>, raised |-> TRUE]
    ELSE IF delta > 0
    THEN IF Sum(cfg.current_instance_count) = 0
         THEN IF Index(cfg.weights, 1) = 0
              THEN [calls |-> <<>>, raised |-> TRUE]
              ELSE [calls |-> <<Call(cfg.servers[1], delta)>>,
                    raised |-> FALSE]
         ELSE [calls |-> [i \in 1..Len(cfg.servers) |->
                             Call(cfg.servers[i],
                                  cfg.current_instance_count[i] + delta)],
               raised |-> FALSE]
    ELSE IF delta < 0
    THEN [calls |-> Drain(cfg.servers, cfg.current_instance_count, 1, delta),
          raised |-> FALSE]
    ELSE [calls |-> <<>>, raised |-> FALSE]

\* The requests update_scaling makes when no request fails; raised is the
\* ValueError of weights.index(1) or the ConfigurationError of a missing
\* config item.
ScalingPlan(cfg, delta) ==
    IF ~cfg.exists THEN [calls |-> <<>>, raised |-> TRUE]
    ELSE IF delta > 0
    THEN IF Sum(cfg.current_instance_count) = 0
         THEN LET primary == Index(cfg.weights, 1)
              IN  IF primary = 0 THEN [calls |-> <<>>, raised |-> TRUE]
                  ELSE [calls |-> <<Call(cfg.servers[primary], delta)>>,
                        raised |-> FALSE]
         ELSE [calls |-> [i \in 1..Len(cfg.servers) |->
                             Call(cfg.servers[i],
                                  cfg.current_instance_count[i] + delta)],
               raised |-> FALSE]
    ELSE IF delta < 0
    THEN [calls |-> Drain(cfg.servers, cfg.current_instance_count, 1, delta),
          raised |-> FALSE]
    ELSE [calls |-> <<>>, raised |-> FALSE]

NoScaling == [ran |-> FALSE, calls |-> <<>>, raised |-> FALSE, delta |-> 0]

\* update_scaling: the plan, cut at the request that raises.  The requests
\* made before the failing one stay made.
UpdateScaling(cfg, st, env) ==
    LET delta == st.desiredCapacity - st.actualCapacity
        plan == IF env.configUp THEN ScalingPlan(cfg, delta)
                ELSE [calls |-> <<>>, raised |-> TRUE]
        fails == env.failAt \in 1..Len(plan.calls)
    IN  [ran |-> TRUE,
         calls |-> IF fails THEN SubSeq(plan.calls, 1, env.failAt - 1)
                   ELSE plan.calls,
         raised |-> plan.raised \/ fails,
         delta |-> delta]

\* A PATCH body: any of actualCapacity, desiredCapacity, scalingStatus.
Body(hasActual, actual, hasDesired, desired, hasStatus, status) ==
    [hasActual |-> hasActual, actualCapacity |-> actual,
     hasDesired |-> hasDesired, desiredCapacity |-> desired,
     hasStatus |-> hasStatus, scalingStatus |-> status]

NoBody == Body(FALSE, 0, FALSE, 0, FALSE, "")

BodyGiven(body) == body.hasActual \/ body.hasDesired \/ body.hasStatus

PatchStateKeepsStatus(st, body, cfg, env) ==
    LET s1 == IF body.hasActual
              THEN [st EXCEPT !.actualCapacity = body.actualCapacity]
              ELSE st
        accepted == body.hasDesired
                    /\ s1.scalingStatus \notin {"InProgress", "Pending"}
        s2 == IF accepted
              THEN [s1 EXCEPT !.desiredCapacity = body.desiredCapacity]
              ELSE s1
        scales == accepted /\ s2.desiredCapacity > 0
        scaling == IF scales THEN UpdateScaling(cfg, s2, env)
                   ELSE NoScaling
        s4 == IF body.hasStatus
              THEN [s2 EXCEPT !.scalingStatus = body.scalingStatus]
              ELSE s2
    IN  [st |-> s4, scaling |-> scaling, timedOut |-> FALSE]

PatchStateScalesBeforeSet(st, body, cfg, env) ==
    LET s1 == IF body.hasActual
              THEN [st EXCEPT !.actualCapacity = body.actualCapacity]
              ELSE st
        accepted == body.hasDesired
                    /\ s1.scalingStatus \notin {"InProgress", "Pending"}
        scales == accepted /\ body.desiredCapacity > 0
        scaling == IF scales THEN UpdateScaling(cfg, s1, env) ELSE NoScaling
        s2 == IF accepted
              THEN [s1 EXCEPT !.desiredCapacity = body.desiredCapacity]
              ELSE s1
        s3 == IF scales THEN [s2 EXCEPT !.scalingStatus = "Pending"] ELSE s2
        s4 == IF body.hasStatus
              THEN [s3 EXCEPT !.scalingStatus = body.scalingStatus]
              ELSE s3
    IN  [st |-> s4, scaling |-> scaling, timedOut |-> FALSE]

PatchStateAcceptsPending(st, body, cfg, env) ==
    LET s1 == IF body.hasActual
              THEN [st EXCEPT !.actualCapacity = body.actualCapacity]
              ELSE st
        accepted == body.hasDesired /\ s1.scalingStatus # "InProgress"
        s2 == IF accepted
              THEN [s1 EXCEPT !.desiredCapacity = body.desiredCapacity]
              ELSE s1
        scales == accepted /\ s2.desiredCapacity > 0
        s3 == IF scales THEN [s2 EXCEPT !.scalingStatus = "Pending"] ELSE s2
        scaling == IF scales THEN UpdateScaling(cfg, s3, env)
                   ELSE NoScaling
        s4 == IF body.hasStatus
              THEN [s3 EXCEPT !.scalingStatus = body.scalingStatus]
              ELSE s3
    IN  [st |-> s4, scaling |-> scaling, timedOut |-> FALSE]

\* ASGClass.patch_state.
PatchState(st, body, cfg, env) ==
    LET s1 == IF body.hasActual
              THEN [st EXCEPT !.actualCapacity = body.actualCapacity]
              ELSE st
        accepted == body.hasDesired
                    /\ s1.scalingStatus \notin {"InProgress", "Pending"}
        s2 == IF accepted
              THEN [s1 EXCEPT !.desiredCapacity = body.desiredCapacity]
              ELSE s1
        scales == accepted /\ s2.desiredCapacity > 0
        s3 == IF scales THEN [s2 EXCEPT !.scalingStatus = "Pending"] ELSE s2
        scaling == IF scales THEN UpdateScaling(cfg, s3, env)
                   ELSE NoScaling
        s4 == IF body.hasStatus
              THEN [s3 EXCEPT !.scalingStatus = body.scalingStatus]
              ELSE s3
    IN  [st |-> s4, scaling |-> scaling, timedOut |-> FALSE]

ReconcileStaleAtThreshold(st, cfg, clock, env) ==
    IF st.desiredCapacity >= 0
    THEN LET drifted == st.scalingStatus \in {"Successful", "Failed"}
                        /\ st.desiredCapacity # st.actualCapacity
             s1 == IF drifted THEN [st EXCEPT !.scalingStatus = "Pending"]
                   ELSE st
             scaling == IF drifted THEN UpdateScaling(cfg, s1, env)
                        ELSE NoScaling
             stale == st.lastModified <= clock - StaleMs
                      /\ s1.scalingStatus \in {"Pending", "InProgress"}
             s2 == IF ~stale THEN s1
                   ELSE IF s1.desiredCapacity # s1.actualCapacity
                   THEN [s1 EXCEPT !.scalingStatus = "Failed",
                                   !.failureResaon = TimeoutReason]
                   ELSE [s1 EXCEPT !.scalingStatus = "Successful"]
         IN  [st |-> s2, scaling |-> scaling, timedOut |-> stale]
    ELSE [st |-> st, scaling |-> NoScaling, timedOut |-> FALSE]

\* The GET branch of lambda_handler: reconciliation, then the staleness check.
Reconcile(st, cfg, clock, env) ==
    IF st.desiredCapacity >= 0
    THEN LET drifted == st.scalingStatus \in {"Successful", "Failed"}
                        /\ st.desiredCapacity # st.actualCapacity
             s1 == IF drifted THEN [st EXCEPT !.scalingStatus = "Pending"]
                   ELSE st
             scaling == IF drifted THEN UpdateScaling(cfg, s1, env)
                        ELSE NoScaling
             stale == st.lastModified < clock - StaleMs
                      /\ s1.scalingStatus \in {"Pending", "InProgress"}
             s2 == IF ~stale THEN s1
                   ELSE IF s1.desiredCapacity # s1.actualCapacity
                   THEN [s1 EXCEPT !.scalingStatus = "Failed",
                                   !.failureResaon = TimeoutReason]
                   ELSE [s1 EXCEPT !.scalingStatus = "Successful"]
         IN  [st |-> s2, scaling |-> scaling, timedOut |-> stale]
    ELSE [st |-> st, scaling |-> NoScaling, timedOut |-> FALSE]

\* What an invocation leaves behind: the response code, the item it put (when
\* written), the control-plane requests it made, and which branches it took
\* (read: it got its ScalingState item; ran: it called update_scaling, with
\* that delta; raised: a control-plane request or the lookup of the pool or
\* of its primary raised; timedOut: the staleness branch).
Outcome(code, written, st, scaling, timedOut) ==
    [code |-> code, written |-> written, st |-> st, calls |-> scaling.calls,
     read |-> code # 500 \/ scaling.ran,
     ran |-> scaling.ran, delta |-> scaling.delta, raised |-> scaling.raised,
     timedOut |-> timedOut, cfgWritten |-> FALSE, rebalanced |-> FALSE]

\* The outcome without the items, and the scalingStatus of the response body:
\* what `last` keeps of an invocation.
Report(out) ==
    [code |-> out.code, written |-> out.written, calls |-> out.calls,
     read |-> out.read,
     answer |-> IF out.code = 200 /\ out.st.exists THEN out.st.scalingStatus
                ELSE "",
     ran |-> out.ran, delta |-> out.delta, raised |-> out.raised,
     timedOut |-> out.timedOut,
     cfgWritten |-> out.cfgWritten, rebalanced |-> out.rebalanced]

PersistWritesAfterRaise(r, clock, env) ==
    LET s1 == IF r.st.scalingStatus # "Failed"
              THEN [r.st EXCEPT !.failureResaon = ""]
              ELSE r.st
        s2 == [s1 EXCEPT !.lastModified = clock]
    IN  Outcome(IF r.scaling.raised THEN 500 ELSE 200, env.writeUp, s2,
                r.scaling, r.timedOut)

PersistKeepsLastModified(r, clock, env) ==
    IF r.scaling.raised
    THEN Outcome(500, FALSE, r.st, r.scaling, r.timedOut)
    ELSE LET s1 == IF r.st.scalingStatus # "Failed"
                   THEN [r.st EXCEPT !.failureResaon = ""]
                   ELSE r.st
         IN  Outcome(200, env.writeUp, s1, r.scaling, r.timedOut)

\* The tail of lambda_handler: clear the failure reason unless Failed, then
\* write_state, whose failure is logged and not raised.
Persist(r, clock, env) ==
    IF r.scaling.raised
    THEN Outcome(500, FALSE, r.st, r.scaling, r.timedOut)
    ELSE LET s1 == IF r.st.scalingStatus # "Failed"
                   THEN [r.st EXCEPT !.failureResaon = ""]
                   ELSE r.st
             s2 == [s1 EXCEPT !.lastModified = clock]
         IN  Outcome(200, env.writeUp, s2, r.scaling, r.timedOut)

\* lambda_handler of the scaling activity lambda.
\* read_state returns {} when the item is missing or the get fails, and the
\* lookup of scalableTargetDimensionId in it raises.
AsgHandler(method, body, st, cfg, clock, env) ==
    IF ~st.exists \/ ~env.stateUp
    THEN Outcome(500, FALSE, st, NoScaling, FALSE)
    ELSE IF BodyGiven(body) /\ method = "PATCH"
    THEN Persist(PatchState(st, body, cfg, env), clock, env)
    ELSE IF method # "GET"
    THEN Outcome(405, FALSE, st, NoScaling, FALSE)
    ELSE Persist(Reconcile(st, cfg, clock, env), clock, env)

\* The inputs of the scaling activity lambda.
PatchBodies ==
    {Body(FALSE, 0, TRUE, d, FALSE, "") : d \in 0..MaxCapacity}
    \cup {Body(TRUE, 1, FALSE, 0, FALSE, ""),
          Body(FALSE, 0, FALSE, 0, TRUE, "InProgress"),
          Body(TRUE, 0, TRUE, MaxCapacity, TRUE, "Successful")}

Requests ==
    {[method |-> "GET", body |-> NoBody], [method |-> "PATCH", body |-> NoBody],
     [method |-> "DELETE", body |-> Body(FALSE, 0, TRUE, 1, FALSE, "")]}
    \cup {[method |-> "PATCH", body |-> b] : b \in PatchBodies}

NoEvent == [parts |-> <<>>, status |-> "", count |-> 0]

\* The control plane with nothing asked of it: declared tells whether the
\* operator has declared a capacity, requests are the calls of
\* update_endpoint_weights_and_capacities not yet fulfilled, oldest first.
NoPlane == [declared |-> FALSE, requests |-> <<>>]

\* No invocation between its read and its write.
NoWorkers == <<>>

\* `last` before any invocation; pre is the ScalingState item an invocation
\* found in the table, clock the time it ran at.
NoInvocation ==
    [op |-> "none", method |-> "", body |-> NoBody, event |-> NoEvent,
     clock |-> 0, pre |-> [exists |-> FALSE],
     out |-> Report(Outcome(0, FALSE, [exists |-> FALSE], NoScaling, FALSE))]

\* One invocation of the scaling activity lambda, from read_state to
\* write_state, on one of the requests reqs under one of the faults envs.
AsgRun(reqs, envs) ==
    \E req \in reqs, env \in envs :
        LET out == AsgHandler(req.method, req.body, state, config, now, env)
        IN  /\ state' = IF out.written THEN out.st ELSE state
            /\ last' = [op |-> "asg", method |-> req.method,
                        body |-> req.body, event |-> NoEvent, clock |-> now,
                        pre |-> state, out |-> Report(out)]
            /\ UNCHANGED <<config, now, plane, workers, routerVars>>

AsgInvoke == AsgRun(Requests, AsgEnvs)

(***************************************************************************)
(* endpoint-state-lambda.py                                                 *)
(***************************************************************************)
ResourceName == "endpoint"

\* math.gcd.
RECURSIVE Gcd(_, _)
Gcd(a, b) == IF b = 0 THEN a ELSE Gcd(b, a % b)

RECURSIVE GcdTo(_, _)
GcdTo(s, n) == IF n = 0 THEN 0 ELSE Gcd(GcdTo(s, n - 1), s[n])

GcdOf(s) == GcdTo(s, Len(s))

RebalanceKeepsCounts(weights, counts) ==
    IF Sum(counts) = 0 THEN [weights EXCEPT ![1] = 1] ELSE counts

\* The weight rebalancing of the IN_SERVICE branch at desired == actual.
Rebalance(weights, counts) ==
    LET gcd_value == GcdOf(counts)
        w1 == IF gcd_value # 0
              THEN [i \in 1..Len(weights) |-> counts[i] \div gcd_value]
              ELSE weights
    IN  IF Sum(w1) = 0 THEN [w1 EXCEPT ![1] = 1] ELSE w1

\* An EventBridge endpoint status event: EndpointName as its parts between
\* hyphens, EndpointStatus, and ProductionVariants[0].DesiredInstanceCount.
Event(parts, status, count) ==
    [parts |-> parts, status |-> status, count |-> count]

\* `resourceName in endpoint_name`.
Tracked(ev) == \E i \in 1..Len(ev.parts) : ev.parts[i] = ResourceName

\* What an event invocation leaves behind: as Outcome, with the config item
\* it put (when cfgWritten).
EventOutcome(code, written, st, cfgWritten, cfg, calls, rebalanced) ==
    [code |-> code, written |-> written, st |-> st, calls |-> calls,
     read |-> st.exists, ran |-> FALSE, delta |-> 0, raised |-> FALSE,
     timedOut |-> FALSE,
     cfgWritten |-> cfgWritten, cfg |-> cfg, rebalanced |-> rebalanced]

\* The outcome of an invocation whose control-plane request raised.
Raised(out) == [out EXCEPT !.raised = TRUE]

StatusForRollingBackFails(endpoint_status) ==
    CASE endpoint_status \in {"FAILED", "OUT_OF_SERVICE", "ROLLING_BACK"}
            -> "Failed"
      [] endpoint_status \in {"CREATING", "SYSTEM_UPDATING"} -> "Pending"
      [] endpoint_status = "UPDATING" -> "InProgress"
      [] OTHER -> ""

\* The status branches other than IN_SERVICE: the new scalingStatus, "" when
\* the status is not handled.
StatusFor(endpoint_status) ==
    CASE endpoint_status \in {"FAILED", "OUT_OF_SERVICE"} -> "Failed"
      [] endpoint_status \in {"CREATING", "SYSTEM_UPDATING", "ROLLING_BACK"}
            -> "Pending"
      [] endpoint_status = "UPDATING" -> "InProgress"
      [] OTHER -> ""

InServiceScalesDownAtZero(ev, st, cfg, clock, env) ==
    LET index == IF Len(ev.parts) < 2 THEN 0
                 ELSE Index(cfg.servers, ev.parts[2])
    IN  IF index = 0
        THEN EventOutcome(500, FALSE, st, FALSE, cfg, <<>>, FALSE)
        ELSE
        LET counts == [cfg.current_instance_count EXCEPT ![index] = ev.count]
            s1 == [st EXCEPT !.actualCapacity = Sum(counts)]
            down == s1.desiredCapacity < s1.actualCapacity
            converged == ~down /\ s1.desiredCapacity = s1.actualCapacity
            calls == IF down
                     THEN <<Call(cfg.servers[index], counts[index] - 1)>>
                     ELSE <<>>
            weights == IF converged THEN Rebalance(cfg.weights, counts)
                       ELSE cfg.weights
            s2 == [s1 EXCEPT !.scalingStatus =
                       IF converged THEN "Successful" ELSE "InProgress",
                             !.lastModified = clock]
            cfg2 == [exists |-> TRUE, servers |-> cfg.servers,
                     weights |-> weights, current_instance_count |-> counts]
        IN  IF down /\ env.failAt = 1
            THEN Raised(EventOutcome(500, FALSE, st, FALSE, cfg, <<>>, FALSE))
            ELSE IF ~env.configPutUp
            THEN EventOutcome(500, FALSE, st, FALSE, cfg, calls, converged)
            ELSE EventOutcome(200, env.writeUp, s2, TRUE, cfg2, calls,
                              converged)

InServiceAddsCount(ev, st, cfg, clock, env) ==
    LET index == IF Len(ev.parts) < 2 THEN 0
                 ELSE Index(cfg.servers, ev.parts[2])
    IN  IF index = 0
        THEN EventOutcome(500, FALSE, st, FALSE, cfg, <<>>, FALSE)
        ELSE
        LET counts == [cfg.current_instance_count EXCEPT ![index] = ev.count]
            s1 == [st EXCEPT !.actualCapacity = @ + ev.count]
            down == s1.desiredCapacity < s1.actualCapacity /\ counts[index] > 0
            converged == ~down /\ s1.desiredCapacity = s1.actualCapacity
            calls == IF down
                     THEN <<Call(cfg.servers[index], counts[index] - 1)>>
                     ELSE <<>>
            weights == IF converged THEN Rebalance(cfg.weights, counts)
                       ELSE cfg.weights
            s2 == [s1 EXCEPT !.scalingStatus =
                       IF converged THEN "Successful" ELSE "InProgress",
                             !.lastModified = clock]
            cfg2 == [exists |-> TRUE, servers |-> cfg.servers,
                     weights |-> weights, current_instance_count |-> counts]
        IN  IF down /\ env.failAt = 1
            THEN Raised(EventOutcome(500, FALSE, st, FALSE, cfg, <<>>, FALSE))
            ELSE IF ~env.configPutUp
            THEN EventOutcome(500, FALSE, st, FALSE, cfg, calls, converged)
            ELSE EventOutcome(200, env.writeUp, s2, TRUE, cfg2, calls,
                              converged)

InServiceAlwaysRebalances(ev, st, cfg, clock, env) ==
    LET index == IF Len(ev.parts) < 2 THEN 0
                 ELSE Index(cfg.servers, ev.parts[2])
    IN  IF index = 0
        THEN EventOutcome(500, FALSE, st, FALSE, cfg, <<>>, FALSE)
        ELSE
        LET counts == [cfg.current_instance_count EXCEPT ![index] = ev.count]
            s1 == [st EXCEPT !.actualCapacity = Sum(counts)]
            down == s1.desiredCapacity < s1.actualCapacity /\ counts[index] > 0
            converged == ~down /\ s1.desiredCapacity = s1.actualCapacity
            calls == IF down
                     THEN <<Call(cfg.servers[index], counts[index] - 1)>>
                     ELSE <<>>
            weights == Rebalance(cfg.weights, counts)
            s2 == [s1 EXCEPT !.scalingStatus =
                       IF converged THEN "Successful" ELSE "InProgress",
                             !.lastModified = clock]
            cfg2 == [exists |-> TRUE, servers |-> cfg.servers,
                     weights |-> weights, current_instance_count |-> counts]
        IN  IF down /\ env.failAt = 1
            THEN Raised(EventOutcome(500, FALSE, st, FALSE, cfg, <<>>, FALSE))
            ELSE IF ~env.configPutUp
            THEN EventOutcome(500, FALSE, st, FALSE, cfg, calls, converged)
            ELSE EventOutcome(200, env.writeUp, s2, TRUE, cfg2, calls,
                              converged)

\* The IN_SERVICE branch of handle_endpoint_status_change.
InService(ev, st, cfg, clock, env) ==
    LET index == IF Len(ev.parts) < 2 THEN 0
                 ELSE Index(cfg.servers, ev.parts[2])
    IN  IF index = 0
        THEN EventOutcome(500, FALSE, st, FALSE, cfg, <<>>, FALSE)
        ELSE
        LET counts == [cfg.current_instance_count EXCEPT ![index] = ev.count]
            s1 == [st EXCEPT !.actualCapacity = Sum(counts)]
            down == s1.desiredCapacity < s1.actualCapacity /\ counts[index] > 0
            converged == ~down /\ s1.desiredCapacity = s1.actualCapacity
            calls == IF down
                     THEN <<Call(cfg.servers[index], counts[index] - 1)>>
                     ELSE <<>>
            weights == IF converged THEN Rebalance(cfg.weights, counts)
                       ELSE cfg.weights
            s2 == [s1 EXCEPT !.scalingStatus =
                       IF converged THEN "Successful" ELSE "InProgress",
                             !.lastModified = clock]
            cfg2 == [exists |-> TRUE, servers |-> cfg.servers,
                     weights |-> weights, current_instance_count |-> counts]
        IN  IF down /\ env.failAt = 1
            THEN Raised(EventOutcome(500, FALSE, st, FALSE, cfg, <<>>, FALSE))
            ELSE IF ~env.configPutUp
            THEN EventOutcome(500, FALSE, st, FALSE, cfg, calls, converged)
            ELSE EventOutcome(200, env.writeUp, s2, TRUE, cfg2, calls,
                              converged)

\* handle_endpoint_status_change.
EventHandler(ev, st, cfg, clock, env) ==
    IF ~cfg.exists \/ ~env.configUp \/ ~st.exists \/ ~env.stateUp
    THEN EventOutcome(500, FALSE, st, FALSE, cfg, <<>>, FALSE)
    ELSE IF ~Tracked(ev)
    THEN EventOutcome(200, FALSE, st, FALSE, cfg, <<>>, FALSE)
    ELSE IF ev.status = "IN_SERVICE"
    THEN InService(ev, st, cfg, clock, env)
    ELSE IF StatusFor(ev.status) # ""
    THEN EventOutcome(200, env.writeUp,
                      [st EXCEPT !.scalingStatus = StatusFor(ev.status),
                                 !.lastModified = clock],
                      FALSE, cfg, <<>>, FALSE)
    ELSE EventOutcome(200, FALSE, st, FALSE, cfg, <<>>, FALSE)

PoolServers == <<"server1", "server2">>

EndpointStatuses ==
    {"IN_SERVICE", "FAILED", "CREATING", "UPDATING", "SYSTEM_UPDATING",
     "ROLLING_BACK", "OUT_OF_SERVICE", "DELETING"}

\* The events delivered: every status for the first backend's endpoint,
\* IN_SERVICE with every count for each backend, and IN_SERVICE for an endpoint
\* of another resource and for a server the pool does not hold.
Events ==
    {Event(<<ResourceName, PoolServers[1]>>, s, 0) : s \in EndpointStatuses}
    \cup {Event(<<ResourceName, PoolServers[i]>>, "IN_SERVICE", c) :
              i \in 1..Len(PoolServers), c \in 0..MaxCapacity}
    \cup {Event(<<"other", PoolServers[1]>>, "IN_SERVICE", 1),
          Event(<<ResourceName, "server9">>, "IN_SERVICE", 1)}

\* One invocation of the endpoint status lambda, from get_server_config to
\* write_state, on one of the events evs under one of the faults envs.
EventRun(evs, envs) ==
    \E ev \in evs, env \in envs :
        LET out == EventHandler(ev, state, config, now, env)
        IN  /\ state' = IF out.written THEN out.st ELSE state
            /\ config' = IF out.cfgWritten THEN out.cfg ELSE config
            /\ last' = [op |-> "event", method |-> "", body |-> NoBody,
                        event |-> ev, clock |-> now, pre |-> state,
                        out |-> Report(out)]
            /\ UNCHANGED <<now, plane, workers, routerVars>>

EndpointEvent == EventRun(Events, EventEnvs)

\* Time passes: exactly 25 minutes, or 25 minutes and a millisecond.
TickSteps == {StaleMs, StaleMs + 1}

MaxNow == MaxStaleWindows * (StaleMs + 1)

Tick ==
    \E dt \in TickSteps :
        /\ now + dt <= MaxNow
        /\ now' = now + dt
        /\ UNCHANGED <<config, state, last, plane, workers, routerVars>>

\* Pool config items the table can hold when the router runs.
WeightVectors == {<<a, b>> : a \in 0..MaxWeight, b \in 0..MaxWeight}

RouterConfigs ==
    {NoConfig, DefaultConfig}
    \cup {[exists |-> TRUE, servers |-> <<"server1", "server2">>,
           weights |-> w, current_instance_count |-> w] : w \in WeightVectors}
    \cup {[exists |-> TRUE, servers |-> <<"server1", "server2">>,
           weights |-> <<1>>, current_instance_count |-> <<1>>],
          [exists |-> TRUE, servers |-> <<>>, weights |-> <<>>,
           current_instance_count |-> <<>>]}

CounterInits ==
    {[exists |-> FALSE, request_count |-> 0]}
    \cup {[exists |-> TRUE, request_count |-> c] : c \in 0..MaxCounterInit}

RouterInit ==
    /\ config \in RouterConfigs
    /\ counter \in CounterInits
    /\ router = [p \in Routers |-> RouterStart]
    /\ log = <<>>
    /\ counter0 = counter
    /\ state = [exists |-> FALSE]
    /\ now = 0
    /\ last = NoInvocation
    /\ plane = NoPlane
    /\ workers = NoWorkers

RouterSpec == RouterInit /\ [][RouterNext]_vars

\* The router on any integers the table can hold: weights of either sign
\* (int(w) of whatever number the item carries), in lists of two and of three,
\* and a counter item of either sign.
SignedWeights == (0 - MaxWeight)..MaxWeight

SelectorConfigs ==
    {[exists |-> TRUE, servers |-> <<"server1", "server2">>,
      weights |-> <<a, b>>, current_instance_count |-> <<0, 0>>] :
         a \in SignedWeights, b \in SignedWeights}
    \cup {[exists |-> TRUE, servers |-> DefaultServers,
           weights |-> <<a, 0 - MaxWeight, MaxWeight + 1>>,
           current_instance_count |-> <<0, 0, 0>>] : a \in SignedWeights}

SelectorCounters ==
    {[exists |-> FALSE, request_count |-> 0]}
    \cup {[exists |-> TRUE, request_count |-> c] :
              c \in (0 - MaxWeight)..(MaxWeight + 1)}

SelectorInit ==
    /\ config \in SelectorConfigs
    /\ counter \in SelectorCounters
    /\ router = [p \in Routers |-> RouterStart]
    /\ log = <<>>
    /\ counter0 = counter
    /\ state = [exists |-> FALSE]
    /\ now = 0
    /\ last = NoInvocation
    /\ plane = NoPlane
    /\ workers = NoWorkers

SelectorSpec == SelectorInit /\ [][RouterNext]_vars

\* The ScalingState item; failureReason is the field of the record schema,
\* failureResaon the key lambda_handler writes.
ScalingState(desired, actual, status, reason) ==
    [exists |-> TRUE, desiredCapacity |-> desired, actualCapacity |-> actual,
     scalingStatus |-> status, lastModified |-> 0, failureResaon |-> reason,
     failureReason |-> "", version |-> 1]

PoolConfig(weights, counts) ==
    [exists |-> TRUE, servers |-> PoolServers, weights |-> weights,
     current_instance_count |-> counts]

\* Pool config items the table can hold when a scaling invocation starts: the
\* weights the rebalancer leaves for the counts, the designated primary of an
\* empty pool, an empty pool whose weights name no primary, and no item.
ScalingConfigs ==
    {PoolConfig(<<1, 0>>, <<0, 0>>), PoolConfig(<<1, 1>>, <<1, 1>>),
     PoolConfig(<<0, 1>>, <<0, 2>>), PoolConfig(<<2, 1>>, <<2, 1>>),
     PoolConfig(<<2, 3>>, <<0, 0>>), NoConfig}

\* The scaling activity lambda alone, from any status the events can leave,
\* or with no ScalingState item for the dimension.
AsgInit ==
    /\ config \in ScalingConfigs
    /\ \/ state = [exists |-> FALSE]
       \/ \E status \in ScalingStatuses, reason \in {"", TimeoutReason} :
              state = ScalingState(Sum(config.current_instance_count),
                                   Sum(config.current_instance_count),
                                   status, reason)
    /\ now = 0
    /\ last = NoInvocation
    /\ plane = NoPlane
    /\ workers = NoWorkers
    /\ counter = [exists |-> FALSE, request_count |-> 0]
    /\ router = [p \in Routers |-> RouterStart]
    /\ log = <<>>
    /\ counter0 = counter

AsgNext == AsgInvoke \/ Tick

AsgSpec == AsgInit /\ [][AsgNext]_vars

\* Pool config items the table can hold when a status event arrives.
EventConfigs ==
    {PoolConfig(<<1, 0>>, <<0, 0>>), PoolConfig(<<1, 1>>, <<1, 1>>),
     PoolConfig(<<1, 2>>, <<1, 2>>), NoConfig}

\* The endpoint status lambda alone, on any declared capacity and any status;
\* a failure reason is recorded on a Failed state only.
EventInit ==
    /\ config \in EventConfigs
    /\ \E desired \in 0..MaxCapacity, status \in ScalingStatuses,
          reason \in {"", TimeoutReason} :
           /\ reason # "" => status = "Failed"
           /\ state = ScalingState(desired,
                                   Sum(config.current_instance_count),
                                   status, reason)
    /\ now = 0
    /\ last = NoInvocation
    /\ plane = NoPlane
    /\ workers = NoWorkers
    /\ counter = [exists |-> FALSE, request_count |-> 0]
    /\ router = [p \in Routers |-> RouterStart]
    /\ log = <<>>
    /\ counter0 = counter

EventNext == EndpointEvent

EventSpec == EventInit /\ [][EventNext]_vars

\* update_scaling called on its own on the items in the table, as patch_state
\* and the GET branch call it.
Redistribute ==
    \E env \in {AllUp, Env(1, TRUE, TRUE, TRUE, TRUE),
                 Env(2, TRUE, TRUE, TRUE, TRUE)} :
        LET scaling == UpdateScaling(config, state, env)
            code == IF scaling.raised THEN 500 ELSE 200
        IN  /\ last' = [op |-> "scaling", method |-> "", body |-> NoBody,
                        event |-> NoEvent, clock |-> now, pre |-> state,
                        out |-> Report(Outcome(code, FALSE, state, scaling,
                                               FALSE))]
            /\ UNCHANGED <<config, state, now, plane, workers, routerVars>>

\* Pools of three backends holding any counts, with the weights the
\* rebalancer gives them, and empty pools.
ThreeServers == <<"server1", "server2", "server3">>

CountVectors ==
    {<<a, b, c>> : a \in 0..MaxCapacity, b \in 0..MaxCapacity,
                   c \in 0..MaxCapacity}

\* The weights an empty pool can carry: the primary at any position, behind
\* other positive weights, or no backend of weight 1 at all.
EmptyPoolWeights ==
    {<<1, 0, 0>>, <<0, 1, 0>>, <<0, 0, 1>>, <<2, 1, 0>>, <<2, 3, 0>>}

RedistributionConfigs ==
    {[exists |-> TRUE, servers |-> ThreeServers,
      weights |-> Rebalance(<<0, 0, 0>>, counts),
      current_instance_count |-> counts] : counts \in CountVectors}
    \cup {[exists |-> TRUE, servers |-> ThreeServers, weights |-> w,
           current_instance_count |-> <<0, 0, 0>>] : w \in EmptyPoolWeights}

\* update_scaling alone, on any pool and any difference between desired and
\* actual capacity; actualCapacity is the sum of the counts or, after a PATCH
\* of actualCapacity, one more.
RedistributionInit ==
    /\ config \in RedistributionConfigs
    /\ \E drift \in 0..1 :
           LET actual == Sum(config.current_instance_count) + drift
           IN  \E desired \in 0..(actual + 1) :
                   state = ScalingState(desired, actual, "Pending", "")
    /\ now = 0
    /\ last = NoInvocation
    /\ plane = NoPlane
    /\ workers = NoWorkers
    /\ counter = [exists |-> FALSE, request_count |-> 0]
    /\ router = [p \in Routers |-> RouterStart]
    /\ log = <<>>
    /\ counter0 = counter

RedistributionNext == Redistribute

RedistributionSpec == RedistributionInit /\ [][RedistributionNext]_vars

(***************************************************************************)
(* The whole scaling loop, handlers running one at a time: the operator     *)
(* declares a capacity once, the reconciliation poll keeps coming, and the  *)
(* control plane fulfils every request and reports it IN_SERVICE.  Time is  *)
(* counted from the latest write of the ScalingState item, the handlers     *)
(* reading only the difference between the clock and lastModified.          *)
(***************************************************************************)
\* What an invocation with no fault leaves in the table and asks of the
\* control plane.
Settle(out, op, method, body, ev, requests) ==
    /\ Len(requests) + Len(out.calls) <= MaxInflight
    /\ state' = IF out.written THEN [out.st EXCEPT !.lastModified = 0]
                ELSE state
    /\ now' = IF out.written THEN 0 ELSE now
    /\ last' = [op |-> op, method |-> method, body |-> body, event |-> ev,
                clock |-> now, pre |-> state, out |-> Report(out)]
    /\ UNCHANGED <<workers, routerVars>>

\* The operator's PATCH of a desiredCapacity above 0, once.
Declare ==
    /\ ~plane.declared
    /\ \E d \in 1..MaxCapacity :
           LET body == Body(FALSE, 0, TRUE, d, FALSE, "")
               out == AsgHandler("PATCH", body, state, config, now, AllUp)
           IN  /\ Settle(out, "asg", "PATCH", body, NoEvent, plane.requests)
               /\ plane' = [declared |-> TRUE,
                            requests |-> plane.requests \o out.calls]
               /\ UNCHANGED config

\* The reconciliation poll: a GET.
Poll ==
    LET out == AsgHandler("GET", NoBody, state, config, now, AllUp)
    IN  /\ Settle(out, "asg", "GET", NoBody, NoEvent, plane.requests)
        /\ plane' = [plane EXCEPT !.requests = @ \o out.calls]
        /\ UNCHANGED config

\* The control plane fulfils the oldest request it holds for some backend, and
\* the IN_SERVICE event reporting the count is handled.
Fulfil ==
    \E k \in 1..Len(plane.requests) :
        LET req == plane.requests[k]
            rest == [j \in 1..(Len(plane.requests) - 1) |->
                        IF j < k THEN plane.requests[j]
                        ELSE plane.requests[j + 1]]
            ev == Event(<<ResourceName, req.server>>, "IN_SERVICE", req.count)
            out == EventHandler(ev, state, config, now, AllUp)
        IN  /\ \A j \in 1..(k - 1) : plane.requests[j].server # req.server
            /\ Settle(out, "event", "", NoBody, ev, rest)
            /\ config' = IF out.cfgWritten THEN out.cfg ELSE config
            /\ plane' = [plane EXCEPT !.requests = rest \o out.calls]

\* A pool at rest on the capacity declared so far.
ConvergenceInit ==
    /\ config \in {PoolConfig(<<1, 0>>, <<0, 0>>),
                    PoolConfig(<<1, 1>>, <<1, 1>>),
                    PoolConfig(<<1, 2>>, <<1, 2>>)}
    /\ state = ScalingState(Sum(config.current_instance_count),
                            Sum(config.current_instance_count),
                            "Successful", "")
    /\ now = 0
    /\ last = NoInvocation
    /\ plane = NoPlane
    /\ workers = NoWorkers
    /\ counter = [exists |-> FALSE, request_count |-> 0]
    /\ router = [p \in Routers |-> RouterStart]
    /\ log = <<>>
    /\ counter0 = counter

ConvergenceNext == Declare \/ Poll \/ Fulfil \/ Tick

\* Every request is fulfilled and reported, the poll keeps coming and time
\* keeps passing.
ConvergenceSpec ==
    /\ ConvergenceInit
    /\ [][ConvergenceNext]_vars
    /\ WF_vars(Fulfil)
    /\ WF_vars(Poll)
    /\ WF_vars(Tick)

(***************************************************************************)
(* Two invocations on the same dimension whose read-to-write windows may    *)
(* overlap: each reads its items, then computes and puts.                   *)
(***************************************************************************)
Job(op, method, body, ev) ==
    [op |-> op, method |-> method, body |-> body, event |-> ev]

\* What the two invocations are: a PATCH declaring a capacity, a PATCH
\* reporting a status, a GET, a status event of the first backend, or an
\* IN_SERVICE event of either backend reporting a new count.
Jobs ==
    {Job("asg", "PATCH", Body(FALSE, 0, TRUE, d, FALSE, ""), NoEvent) :
         d \in 1..MaxCapacity}
    \cup {Job("asg", "PATCH", Body(FALSE, 0, FALSE, 0, TRUE, "Failed"),
              NoEvent),
          Job("asg", "GET", NoBody, NoEvent)}
    \cup {Job("event", "", NoBody,
              Event(<<ResourceName, PoolServers[1]>>, s, 1)) :
              s \in {"IN_SERVICE", "UPDATING", "FAILED"}}
    \cup {Job("event", "", NoBody,
              Event(<<ResourceName, PoolServers[i]>>, "IN_SERVICE",
                    MaxCapacity)) : i \in 1..Len(PoolServers)}

Worker(job, pc, snapshot, snapshotConfig, item, code, written, seq) ==
    [job |-> job, pc |-> pc, snapshot |-> snapshot,
     snapshotConfig |-> snapshotConfig, item |-> item, code |-> code,
     written |-> written, seq |-> seq]

PutItemConditional(stored, snapshot, item) ==
    IF stored = snapshot THEN item ELSE stored

\* table.put_item(Item=self.currentState): the item replaces whatever the
\* table holds, whatever the invocation had read.
PutItem(stored, snapshot, item) == item

\* read_state at the head of a handler (after get_server_config in the
\* endpoint status lambda).
WorkerRead(w) ==
    /\ workers[w].pc = "start"
    /\ workers' = [workers EXCEPT ![w].pc = "read", ![w].snapshot = state,
                                  ![w].snapshotConfig = config]
    /\ UNCHANGED <<config, state, now, last, plane, routerVars>>

\* The rest of the handler on what it has read, to its puts; update_scaling
\* of the scaling activity lambda gets the config item at this point.
WorkerFinish(w) ==
    LET me == workers[w]
        job == me.job
        out == IF job.op = "asg"
               THEN AsgHandler(job.method, job.body, me.snapshot, config, now,
                               AllUp)
               ELSE EventHandler(job.event, me.snapshot, me.snapshotConfig,
                                 now, AllUp)
        finished == Cardinality({v \in DOMAIN workers :
                                    workers[v].pc = "done"})
    IN  /\ me.pc = "read"
        /\ state' = IF out.written THEN PutItem(state, me.snapshot, out.st)
                    ELSE state
        /\ config' = IF out.cfgWritten THEN out.cfg ELSE config
        /\ workers' = [workers EXCEPT ![w].pc = "done", ![w].item = out.st,
                                      ![w].code = out.code,
                                      ![w].written = out.written,
                                      ![w].seq = finished + 1]
        /\ last' = [op |-> job.op, method |-> job.method, body |-> job.body,
                    event |-> job.event, clock |-> now, pre |-> me.snapshot,
                    out |-> Report(out)]
        /\ UNCHANGED <<now, plane, routerVars>>

RaceInit ==
    /\ config \in {PoolConfig(<<1, 1>>, <<1, 1>>)}
    /\ \E status \in {"Successful", "InProgress"} :
           state = ScalingState(2, 2, status, "")
    /\ now = 0
    /\ last = NoInvocation
    /\ plane = NoPlane
    /\ \E a \in Jobs, b \in Jobs :
           workers = <<Worker(a, "start", [exists |-> FALSE], NoConfig,
                              [exists |-> FALSE], 0, FALSE, 0),
                       Worker(b, "start", [exists |-> FALSE], NoConfig,
                              [exists |-> FALSE], 0, FALSE, 0)>>
    /\ counter = [exists |-> FALSE, request_count |-> 0]
    /\ router = [p \in Routers |-> RouterStart]
    /\ log = <<>>
    /\ counter0 = counter

RaceNext == \E w \in DOMAIN workers : WorkerRead(w) \/ WorkerFinish(w)

RaceSpec == RaceInit /\ [][RaceNext]_vars

(***************************************************************************)
(* Both lambdas in operation, one invocation at a time: the operator's      *)
(* polls and capacity declarations and the endpoint status events.          *)
(***************************************************************************)
\* What the operator sends: GET, and PATCH with a body of desiredCapacity
\* alone.
OperatorRequests ==
    {[method |-> "GET", body |-> NoBody]}
    \cup {[method |-> "PATCH", body |-> Body(FALSE, 0, TRUE, d, FALSE, "")] :
              d \in 0..MaxCapacity}

\* The faults of update_scaling: its first or its second request raises.
OperatorEnvs ==
    {AllUp, Env(1, TRUE, TRUE, TRUE, TRUE), Env(2, TRUE, TRUE, TRUE, TRUE)}

Operate == AsgRun(OperatorRequests, OperatorEnvs)

\* The endpoint status events, with or without a failing control-plane
\* request.
StatusEvent == EventRun(Events, {AllUp, Env(1, TRUE, TRUE, TRUE, TRUE)})

\* A pool at rest: one instance on each backend, or emptied after holding
\* two and three instances (the weights of that time are kept by an empty
\* pool).
OperationConfigs ==
    {PoolConfig(<<1, 1>>, <<1, 1>>), PoolConfig(<<2, 3>>, <<0, 0>>)}

\* The item was last written at time 0, by a convergence or by a PATCH that
\* declared the capacity the pool already had; the operation starts at once
\* or more than 25 minutes later.
OperationInit ==
    /\ config \in OperationConfigs
    /\ \E status \in {"Successful", "Pending"} :
           state = ScalingState(Sum(config.current_instance_count),
                                Sum(config.current_instance_count),
                                status, "")
    /\ now \in {0, StaleMs + 1}
    /\ last = NoInvocation
    /\ plane = NoPlane
    /\ workers = NoWorkers
    /\ counter = [exists |-> FALSE, request_count |-> 0]
    /\ router = [p \in Routers |-> RouterStart]
    /\ log = <<>>
    /\ counter0 = counter

OperationNext == Operate \/ StatusEvent

OperationSpec == OperationInit /\ [][OperationNext]_vars

(***************************************************************************)
(* The designated primary of the pool over its life: a pool of two backends *)
(* that starts empty with the first as primary, is scaled by the operator   *)
(* and reported on by the endpoints, with no fault anywhere.                *)
(***************************************************************************)
\* The largest capacity declared: enough for the two backends to hold
\* different counts above 1.
FullCapacity == 2 * MaxCapacity + 1

PrimaryRequests ==
    {[method |-> "GET", body |-> NoBody]}
    \cup {[method |-> "PATCH", body |-> Body(FALSE, 0, TRUE, d, FALSE, "")] :
              d \in {0, 1, FullCapacity}}

PrimaryOperate == AsgRun(PrimaryRequests, {AllUp})

\* IN_SERVICE reports of either backend: emptied, or holding its share of
\* the full capacity.
PrimaryEvents ==
    {Event(<<ResourceName, PoolServers[i]>>, "IN_SERVICE", c) :
         i \in 1..Len(PoolServers), c \in {0, MaxCapacity, MaxCapacity + 1}}

PrimaryEvent == EventRun(PrimaryEvents, {AllUp})

PrimaryInit ==
    /\ config = PoolConfig(<<1, 0>>, <<0, 0>>)
    /\ state = ScalingState(0, 0, "Successful", "")
    /\ now = 0
    /\ last = NoInvocation
    /\ plane = NoPlane
    /\ workers = NoWorkers
    /\ counter = [exists |-> FALSE, request_count |-> 0]
    /\ router = [p \in Routers |-> RouterStart]
    /\ log = <<>>
    /\ counter0 = counter

PrimaryNext == PrimaryOperate \/ PrimaryEvent

PrimarySpec == PrimaryInit /\ [][PrimaryNext]_vars

(***************************************************************************)
(* Properties of the router.                                                *)
(***************************************************************************)
Done(p) == router[p].pc = "done"

Decided(p) == Done(p) /\ router[p].path # "none"

ValidCfg(cfg) == cfg.ok /\ Sum(cfg.weights) > 0

\* Backend i owns counter value c: its bucket is the first whose cumulative
\* weight reaches (c mod total) + 1.
InBucket(weights, c, i) ==
    LET position == (c % Sum(weights)) + 1
    IN  /\ i \in 1..Len(weights)
        /\ SumTo(weights, i) >= position
        /\ \A j \in 1..(i - 1) : SumTo(weights, j) < position

\* C1: with non-negative weights of positive sum, every routing decision
\* returns the first backend in list order whose cumulative weight is at
\* least (c mod total) + 1, c being the counter value it used; for weights
\* [5,3,2] the values 0..4 give backend 0, 5..7 backend 1 and 8..9 backend 2.
C1_SelectsCumulativeBucket ==
    \A p \in Routers :
        (Decided(p) /\ ValidCfg(router[p].cfg)) =>
            LET cfg == router[p].cfg
                c == router[p].observed
                r == router[p].result
            IN  /\ r.ok
                /\ ~r.warning
                /\ \E i \in 1..Len(cfg.weights) :
                       InBucket(cfg.weights, c, i) /\ r.server = cfg.servers[i]
                /\ (cfg.weights = <<5, 3, 2>> /\ c \in 0..9) =>
                       r.server = cfg.servers[IF c <= 4 THEN 1
                                              ELSE IF c <= 7 THEN 2 ELSE 3]

C1_Witness ==
    \E p \in Routers :
        /\ Decided(p)
        /\ router[p].path = "exact"
        /\ router[p].cfg.weights = <<5, 3, 2>>
        /\ router[p].observed = 6
        /\ router[p].result.server = "server2"

\* The invocations of a window of the log: total consecutive counter updates.
Window(k, total) == {log[j] : j \in k..(k + total - 1)}

\* C2: with the counter store available and the pool config unchanged, any
\* total = sum(weights) routing decisions that are consecutive in the order
\* of their counter updates select each backend exactly weight-many times,
\* however the invocations interleave.
C2_WindowIsProportional ==
    \A k \in 1..Len(log) :
        LET cfg == router[log[k]].cfg
            total == Sum(cfg.weights)
        IN  (/\ ValidCfg(cfg)
             /\ k + total - 1 <= Len(log)
             /\ \A p \in Window(k, total) : Done(p) /\ router[p].cfg = cfg)
            => \A i \in 1..Len(cfg.weights) :
                   Cardinality({p \in Window(k, total) :
                                   router[p].result.server = cfg.servers[i]})
                       = cfg.weights[i]

C2_Witness ==
    /\ Len(log) = 2
    /\ router[log[1]].cfg.weights = <<1, 1>>
    /\ router[log[2]].cfg.weights = <<1, 1>>
    /\ router[log[1]].result.server # router[log[2]].result.server

\* C3: the counter is incremented exactly once per routing decision that
\* reached the store: n such decisions, in any interleaving, leave the counter
\* at its initial value (0 when absent) plus n, they observed the n values
\* from the initial one upwards each exactly once, and each decision that
\* returns a backend reports the value it observed plus 1.
C3_CounterCountsDecisions ==
    LET n == Len(log)
        c0 == IF counter0.exists THEN counter0.request_count ELSE 0
    IN  /\ (n = 0) => counter = counter0
        /\ (n > 0) => counter = [exists |-> TRUE, request_count |-> c0 + n]
        /\ \A j \in 1..n :
               /\ router[log[j]].path = "exact"
               /\ router[log[j]].observed = c0 + j - 1
               /\ router[log[j]].result.ok =>
                      router[log[j]].result.request_count = c0 + j
        /\ \A p \in Routers :
               router[p].path = "exact" =>
                   Cardinality({j \in 1..n : log[j] = p}) = 1

C3_Witness ==
    /\ ~counter0.exists
    /\ Len(log) = NumRouters
    /\ counter = [exists |-> TRUE, request_count |-> NumRouters]
    /\ \A p \in Routers : router[p].result.ok

InvalidItem(item) ==
    /\ item.exists
    /\ \/ item.servers = <<>>
       \/ item.weights = <<>>
       \/ Len(item.servers) # Len(item.weights)
       \/ Sum(item.weights) <= 0

InvalidConfigurationErrors ==
    {"Invalid server weights configuration",
     "Invalid server configuration in database"}

\* C4: when the stored weights sum to 0 or less, or the server and weight
\* lists are empty or differ in length, a routing decision that could read the
\* config ends in a status 500 error naming the invalid configuration and
\* returns no backend, whatever the counter value.
C4_InvalidConfigNeverSelects ==
    \A p \in Routers :
        (Done(p) /\ InvalidItem(config)) =>
            LET r == router[p].result
            IN  /\ ~r.ok
                /\ r.server = ""
                /\ r.statusCode = 500
                /\ (router[p].cfg.error # "DynamoDB error") =>
                       (r.error \in InvalidConfigurationErrors
                        \/ r.detail \in InvalidConfigurationErrors)

C4_Witness ==
    \E p, q \in Routers :
        /\ Done(p) /\ Done(q)
        /\ router[p].path = "exact" /\ router[q].path = "fallback"
        /\ config.weights = <<0, 0>>
        /\ router[p].result.error = "Invalid server weights configuration"
        /\ router[q].result.error = "Invalid server weights configuration"

\* C5: when the counter update fails and the pool config is valid, the
\* routing decision does not fail: it uses a fallback value in 0..999 and
\* returns the backend the bucket rule gives for that value.
C5_FallbackStillSelects ==
    \A p \in Routers :
        (Done(p) /\ router[p].path = "fallback" /\ ValidCfg(router[p].cfg)) =>
            LET cfg == router[p].cfg
                c == router[p].observed
                r == router[p].result
            IN  /\ c \in 0..999
                /\ r.ok /\ r.statusCode = 200
                /\ r.request_count = c + 1
                /\ Cardinality({i \in 1..Len(cfg.weights) :
                                   /\ InBucket(cfg.weights, c, i)
                                   /\ r.server = cfg.servers[i]}) = 1

C5_Witness ==
    \E p \in Routers :
        /\ Done(p)
        /\ router[p].path = "fallback"
        /\ router[p].observed = 999
        /\ router[p].cfg.weights = <<5, 3, 2>>
        /\ router[p].result.server = "server3"

\* C6: a routing decision made with the fallback counter is tagged in its
\* result: two decisions with the same result took the same counter path.
C6_FallbackIsTagged ==
    \A p, q \in Routers :
        (Decided(p) /\ Decided(q) /\ router[p].result = router[q].result) =>
            router[p].path = router[q].path

(***************************************************************************)
(* Properties of the scaling activity lambda, stated of the latest          *)
(* invocation: last.pre is the ScalingState item it found, state the item   *)
(* in the table since.                                                      *)
(***************************************************************************)
\* The latest invocation was this request to the scaling activity lambda, and
\* it got its ScalingState item.
Asg(method) ==
    last.op = "asg" /\ last.method = method /\ last.pre.exists /\ last.out.read

Declared == Asg("PATCH") /\ last.body.hasDesired

OnlyDesired(body) == body.hasDesired /\ ~body.hasActual /\ ~body.hasStatus

\* C7 as stated: a PATCH declaring desiredCapacity d on a Successful or
\* Failed state sets desiredCapacity = d and scalingStatus = Pending and runs
\* redistribution with delta = d - actualCapacity.  Read here of the
\* invocations that complete and whose body carries desiredCapacity alone.
C7_DeclareAlwaysRedistributes ==
    (/\ Declared /\ OnlyDesired(last.body)
     /\ last.pre.scalingStatus \in {"Successful", "Failed"}
     /\ last.out.code = 200 /\ last.out.written)
    => /\ last.out.ran
       /\ last.out.delta = last.body.desiredCapacity - last.pre.actualCapacity
       /\ state.desiredCapacity = last.body.desiredCapacity
       /\ state.scalingStatus = "Pending"

\* C7, amended: a PATCH declaring desiredCapacity d > 0 on a Successful or
\* Failed state runs redistribution once, with delta = d - actualCapacity (the
\* actualCapacity of the same body when it carries one); if redistribution
\* raises, the invocation answers 500 and writes nothing; otherwise the item it
\* writes has desiredCapacity = d and scalingStatus = Pending, or the body's
\* scalingStatus when it carries one.  With d = 0 the item written has
\* desiredCapacity = 0, the status is left as it was (or as the body gives it)
\* and no redistribution runs.
C7_DeclareRedistributesWhenPositive ==
    LET body == last.body
        out == last.out
        d == body.desiredCapacity
        actual == IF body.hasActual THEN body.actualCapacity
                  ELSE last.pre.actualCapacity
    IN  (Declared /\ last.pre.scalingStatus \in {"Successful", "Failed"})
        => /\ ~out.written => state = last.pre
           /\ IF d > 0
              THEN /\ out.ran
                   /\ out.delta = d - actual
                   /\ out.code \in {200, 500}
                   /\ out.code = 500 => ~out.written
                   /\ out.written =>
                          /\ state.desiredCapacity = d
                          /\ state.scalingStatus =
                                 IF body.hasStatus THEN body.scalingStatus
                                 ELSE "Pending"
              ELSE /\ ~out.ran
                   /\ out.calls = <<>>
                   /\ out.code = 200
                   /\ out.written =>
                          /\ state.desiredCapacity = 0
                          /\ state.scalingStatus =
                                 IF body.hasStatus THEN body.scalingStatus
                                 ELSE last.pre.scalingStatus

C7_Witness ==
    /\ Declared /\ OnlyDesired(last.body)
    /\ last.pre.scalingStatus = "Successful"
    /\ last.pre.actualCapacity = 1
    /\ last.body.desiredCapacity = 2
    /\ last.out.ran /\ last.out.written
    /\ last.out.delta = 1
    /\ last.out.calls = <<Call("server1", 2), Call("server2", 2)>>
    /\ state.scalingStatus = "Pending"
    /\ state.desiredCapacity = 2

\* C8 as stated: a PATCH declaring a desiredCapacity while the status is
\* InProgress or Pending issues no control-plane request and leaves the
\* persisted ScalingState item identical.  Read here of the bodies that carry
\* desiredCapacity alone.
C8_RejectedDeclareLeavesItem ==
    (/\ Declared /\ OnlyDesired(last.body)
     /\ last.pre.scalingStatus \in {"InProgress", "Pending"})
    => /\ last.out.calls = <<>>
       /\ state = last.pre

\* C8, amended: a PATCH declaring a desiredCapacity while the status is
\* InProgress or Pending issues no control-plane request and leaves
\* desiredCapacity as it was, actualCapacity and scalingStatus changing only to
\* what the body itself carries for them; the item is written all the same,
\* with lastModified set to the current time and the failure reason
\* (failureResaon) emptied unless the resulting status is Failed.
C8_RejectedDeclareKeepsCapacity ==
    LET body == last.body
        out == last.out
        status == IF body.hasStatus THEN body.scalingStatus
                  ELSE last.pre.scalingStatus
    IN  (Declared /\ last.pre.scalingStatus \in {"InProgress", "Pending"})
        => /\ out.calls = <<>>
           /\ ~out.ran
           /\ out.code = 200
           /\ state =
                  IF out.written
                  THEN [last.pre EXCEPT
                           !.actualCapacity =
                               IF body.hasActual THEN body.actualCapacity
                               ELSE @,
                           !.scalingStatus = status,
                           !.failureResaon =
                               IF status # "Failed" THEN "" ELSE @,
                           !.lastModified = last.clock]
                  ELSE last.pre

C8_Witness ==
    /\ Declared /\ OnlyDesired(last.body)
    /\ last.pre.scalingStatus = "InProgress"
    /\ last.pre.desiredCapacity = 1
    /\ last.body.desiredCapacity = 2
    /\ last.out.written
    /\ state.scalingStatus = "InProgress"
    /\ state.desiredCapacity = 1
    /\ state.lastModified > last.pre.lastModified

\* C9: a GET on a state in Pending or InProgress whose lastModified is more
\* than 25 minutes in the past answers, and writes, Failed when desired and
\* actual capacity differ and Successful when they are equal; when
\* lastModified is 25 minutes old or less the status stays as it was.
C9_StalenessTimeout ==
    LET pre == last.pre
        age == last.clock - pre.lastModified
        expected ==
            IF age > 25 * 60 * 1000
            THEN IF pre.desiredCapacity # pre.actualCapacity
                 THEN "Failed" ELSE "Successful"
            ELSE pre.scalingStatus
    IN  (Asg("GET") /\ pre.scalingStatus \in {"Pending", "InProgress"})
        => /\ last.out.code = 200
           /\ last.out.answer = expected
           /\ state.scalingStatus =
                  IF last.out.written THEN expected ELSE pre.scalingStatus
           /\ last.out.timedOut <=> age > 25 * 60 * 1000

C9_Witness ==
    /\ Asg("GET")
    /\ last.pre.scalingStatus = "Pending"
    /\ last.clock - last.pre.lastModified = 25 * 60 * 1000 + 1
    /\ last.out.timedOut /\ last.out.written
    /\ state.scalingStatus = "Failed"
    /\ state.desiredCapacity # state.actualCapacity

\* C10: a GET on a state that is Successful or Failed with desiredCapacity #
\* actualCapacity runs redistribution once and persists scalingStatus =
\* Pending, whatever the age of lastModified.  Read here of the invocations
\* that complete.
C10_DriftPersistsPending ==
    (/\ Asg("GET")
     /\ last.pre.scalingStatus \in {"Successful", "Failed"}
     /\ last.pre.desiredCapacity # last.pre.actualCapacity
     /\ last.out.code = 200 /\ last.out.written)
    => /\ last.out.ran
       /\ state.scalingStatus = "Pending"

(***************************************************************************)
(* Properties of the endpoint status lambda, stated of the latest           *)
(* invocation: last.event is the event it handled, state and config the     *)
(* items in the table since.                                                *)
(***************************************************************************)
\* The latest invocation handled this status for the tracked resource and
\* ran to its end.
Handled(statuses) ==
    /\ last.op = "event"
    /\ Tracked(last.event)
    /\ last.event.status \in statuses
    /\ last.out.code = 200

\* The backend an IN_SERVICE event reports for.
Reporting == Index(config.servers, last.event.parts[2])

\* C11: for a status event of the tracked resource, FAILED and OUT_OF_SERVICE
\* set scalingStatus to Failed, CREATING, SYSTEM_UPDATING and ROLLING_BACK set
\* it to Pending and UPDATING sets it to InProgress, leaving desiredCapacity,
\* actualCapacity and the pool config as they were; a status that is not
\* recognized writes nothing.
C11_StatusEventsSetStatus ==
    LET status == last.event.status
        expected ==
            IF status \in {"FAILED", "OUT_OF_SERVICE"} THEN "Failed"
            ELSE IF status \in {"CREATING", "SYSTEM_UPDATING", "ROLLING_BACK"}
            THEN "Pending"
            ELSE IF status = "UPDATING" THEN "InProgress"
            ELSE ""
    IN  Handled(EndpointStatuses \ {"IN_SERVICE"})
        => /\ ~last.out.cfgWritten
           /\ last.out.calls = <<>>
           /\ IF expected # ""
              THEN /\ last.out.written
                   /\ state = [last.pre EXCEPT !.scalingStatus = expected,
                                               !.lastModified = last.clock]
              ELSE /\ ~last.out.written
                   /\ state = last.pre

C11_Witness ==
    /\ Handled({"ROLLING_BACK"})
    /\ last.pre.scalingStatus = "Successful"
    /\ last.pre.desiredCapacity = 2
    /\ state.scalingStatus = "Pending"
    /\ state.desiredCapacity = 2
    /\ state.actualCapacity = last.pre.actualCapacity

\* C12: an IN_SERVICE event for backend i stores the reported count as
\* currentInstanceCount[i] and the sum of all counts as actualCapacity; then,
\* if desired < actual and count[i] > 0, it issues exactly one request, for
\* count[i] - 1 on backend i, and the status becomes InProgress; else if
\* desired = actual the weights are rebalanced and the status becomes
\* Successful; otherwise the status becomes InProgress and no request is
\* issued.
C12_InServiceBranches ==
    LET i == Reporting
        counts == config.current_instance_count
        desired == state.desiredCapacity
        actual == state.actualCapacity
    IN  Handled({"IN_SERVICE"})
        => /\ last.out.cfgWritten /\ last.out.written
           /\ counts[i] = last.event.count
           /\ actual = Sum(counts)
           /\ desired = last.pre.desiredCapacity
           /\ IF desired < actual /\ counts[i] > 0
              THEN /\ last.out.calls =
                          <<Call(config.servers[i], counts[i] - 1)>>
                   /\ state.scalingStatus = "InProgress"
                   /\ ~last.out.rebalanced
              ELSE IF desired = actual
              THEN /\ last.out.calls = <<>>
                   /\ state.scalingStatus = "Successful"
                   /\ last.out.rebalanced
              ELSE /\ last.out.calls = <<>>
                   /\ state.scalingStatus = "InProgress"
                   /\ ~last.out.rebalanced

C12_Witness ==
    /\ Handled({"IN_SERVICE"})
    /\ state.desiredCapacity = 1
    /\ state.actualCapacity = 3
    /\ last.event.count = 2
    /\ last.out.calls = <<Call("server2", 1)>>
    /\ state.scalingStatus = "InProgress"

\* C13: when an IN_SERVICE event has left the state Successful with desired =
\* actual, handling the identical event again, whatever fault it meets, issues
\* no control-plane request and, when it runs to its end, leaves scalingStatus
\* Successful and actualCapacity, the counts and the weights as they are.
C13_RepeatedInServiceIsIdempotent ==
    (/\ Handled({"IN_SERVICE"})
     /\ state.scalingStatus = "Successful"
     /\ state.desiredCapacity = state.actualCapacity)
    => \A env \in EventEnvs :
           LET again == EventHandler(last.event, state, config, now, env)
           IN  /\ again.calls = <<>>
               /\ IF again.code = 200
                  THEN /\ again.st.scalingStatus = "Successful"
                       /\ again.st.actualCapacity = state.actualCapacity
                       /\ again.st.desiredCapacity = state.desiredCapacity
                       /\ again.cfg = config
                  ELSE ~again.written /\ ~again.cfgWritten

\* An IN_SERVICE event handled on a converged state whose stored count for the
\* backend is the count reported: the capacity is what it was.
C13_Witness ==
    /\ Handled({"IN_SERVICE"})
    /\ last.pre.scalingStatus = "Successful"
    /\ last.pre.desiredCapacity = last.pre.actualCapacity
    /\ last.pre.actualCapacity = state.actualCapacity
    /\ last.event.count = 2
    /\ last.out.calls = <<>>
    /\ state.scalingStatus = "Successful"

\* The latest invocation ran the convergence rebalance and put its result.
Rebalanced == Handled({"IN_SERVICE"}) /\ last.out.rebalanced

\* C15: after a convergence rebalance in which not all counts are 0, every
\* weight is its count divided by the greatest common divisor g of the counts,
\* so weight[i] * count[j] = weight[j] * count[i] for all i, j, and the weights
\* sum to more than 0; counts [6,9,3] give weights [2,3,1].
C15_RebalanceDividesByGcd ==
    LET counts == config.current_instance_count
        weights == config.weights
        n == Len(counts)
        Divides(h) == \A i \in 1..n : counts[i] % h = 0
    IN  /\ Rebalance(<<1, 1, 1>>, <<6, 9, 3>>) = <<2, 3, 1>>
        /\ (Rebalanced /\ Sum(counts) > 0)
           => /\ Len(weights) = n
              /\ \E g \in 1..Sum(counts) :
                     /\ Divides(g)
                     /\ \A h \in 1..Sum(counts) : Divides(h) => h <= g
                     /\ \A i \in 1..n : weights[i] * g = counts[i]
              /\ \A i, j \in 1..n :
                     weights[i] * counts[j] = weights[j] * counts[i]
              /\ Sum(weights) > 0

C15_Witness ==
    /\ Rebalanced
    /\ config.current_instance_count = <<0, 2>>
    /\ config.weights = <<0, 1>>
    /\ state.scalingStatus = "Successful"

\* C16: after a convergence rebalance in which every count is 0, the weights
\* are 1 for the first backend and 0 for every other one, whatever weights the
\* pool held before.
C16_EmptyPoolWeights ==
    (Rebalanced /\ Sum(config.current_instance_count) = 0)
    => config.weights =
           [i \in 1..Len(config.servers) |-> IF i = 1 THEN 1 ELSE 0]

\* C19: in every ScalingState item either handler persists, scalingStatus #
\* Failed implies an empty failure reason (read here of the key the handlers
\* write, failureResaon).
C19_ReasonOnlyWhenFailed ==
    (last.op \in {"asg", "event"} /\ last.out.written)
    => (state.scalingStatus # "Failed" => state.failureResaon = "")

\* C20: when the staleness timeout moves a state to Failed, the failureReason
\* field of the item persisted holds a non-empty reason.
C20_TimeoutRecordsReason ==
    (/\ Asg("GET") /\ last.out.timedOut /\ last.out.written
     /\ state.scalingStatus = "Failed")
    => state.failureReason # ""

(***************************************************************************)
(* Properties of update_scaling, stated of its latest call: last.out.calls  *)
(* are the requests it made on the pool in config.                          *)
(***************************************************************************)
\* C14: for every vector of non-negative counts and every delta < 0 whose
\* magnitude is at most the sum of the counts, every instance count
\* update_scaling passes to the control plane is >= 0.
C14_ScaleDownNeverNegative ==
    (/\ last.op = "scaling"
     /\ last.out.delta < 0
     /\ -last.out.delta <= Sum(config.current_instance_count))
    => \A k \in 1..Len(last.out.calls) : last.out.calls[k].count >= 0

C14_Witness ==
    /\ last.op = "scaling"
    /\ config.current_instance_count = <<1, 0, 2>>
    /\ last.out.delta = -2
    /\ last.out.calls = <<Call("server1", 0), Call("server3", 1)>>

\* C23: on a scale-up (delta > 0) whose requests all succeed, an empty pool
\* gets exactly one request, for delta instances on the backend of weight 1;
\* any other pool gets exactly one request per backend, in the order of the
\* list, each for that backend's current count plus delta.
C23_ScaleUpRequests ==
    (last.op = "scaling" /\ last.out.delta > 0 /\ last.out.code = 200)
    => IF \A i \in 1..Len(config.servers) :
              config.current_instance_count[i] = 0
       THEN /\ Len(last.out.calls) = 1
            /\ last.out.calls[1].count = last.out.delta
            /\ \E i \in 1..Len(config.servers) :
                   /\ config.weights[i] = 1
                   /\ last.out.calls[1].server = config.servers[i]
       ELSE last.out.calls =
                [i \in 1..Len(config.servers) |->
                    Call(config.servers[i],
                         config.current_instance_count[i] + last.out.delta)]

\* An empty pool whose backend of weight 1 is the second of the list.
C23_Witness ==
    /\ last.op = "scaling" /\ last.out.code = 200
    /\ config.current_instance_count = <<0, 0, 0>>
    /\ config.weights = <<2, 1, 0>>
    /\ last.out.delta = 1
    /\ last.out.calls = <<Call("server2", 1)>>

\* The count each backend holds once the requests of a call are fulfilled:
\* the requested count where a request was made, the current count otherwise.
Requested(calls, servers, counts) ==
    [i \in 1..Len(servers) |->
        IF \E k \in 1..Len(calls) : calls[k].server = servers[i]
        THEN calls[CHOOSE k \in 1..Len(calls) :
                      calls[k].server = servers[i]].count
        ELSE counts[i]]

\* C28: for every count vector and every delta < 0 with |delta| <= the sum
\* of the counts, the requested-or-current counts total sum + delta, and a
\* backend is reduced only if every earlier backend holding instances was
\* requested to 0.
C28_ScaleDownAbsorbsDeficit ==
    (/\ last.op = "scaling" /\ last.out.code = 200
     /\ last.out.delta < 0
     /\ -last.out.delta <= Sum(config.current_instance_count))
    => LET counts == config.current_instance_count
           after == Requested(last.out.calls, config.servers, counts)
       IN  /\ Sum(after) = Sum(counts) + last.out.delta
           /\ \A i \in 1..Len(counts) :
                  after[i] < counts[i]
                  => \A j \in 1..(i - 1) :
                         counts[j] > 0
                         => \E k \in 1..Len(last.out.calls) :
                                last.out.calls[k]
                                    = Call(config.servers[j], 0)

\* A reduction by 3 that empties the first two holders and takes one
\* instance from the third.
C28_Witness ==
    /\ last.op = "scaling" /\ last.out.code = 200
    /\ config.current_instance_count = <<1, 1, 2>>
    /\ last.out.delta = -3
    /\ last.out.calls = <<Call("server1", 0), Call("server2", 0),
                          Call("server3", 1)>>

(***************************************************************************)
(* Properties of the scaling loop.                                          *)
(***************************************************************************)
Converged ==
    /\ state.scalingStatus = "Successful"
    /\ state.actualCapacity = state.desiredCapacity
    /\ state.desiredCapacity = Sum(config.current_instance_count)

\* C17: once the operator has declared a capacity d > 0 and declares nothing
\* further, with every request fulfilled and reported IN_SERVICE, the poll
\* recurring and the handlers running one at a time, the system eventually
\* reaches and stays in a state with scalingStatus = Successful and
\* actualCapacity = desiredCapacity = the sum of currentInstanceCount.
C17_EventuallyConvergedForGood == <>[]Converged

(***************************************************************************)
(* Properties of overlapping invocations.                                   *)
(***************************************************************************)
Wrote(w) ==
    workers[w].pc = "done" /\ workers[w].code = 200 /\ workers[w].written

\* C18: when two invocations for the same dimension have both finished
\* successfully, the ScalingState item in the table is the item of the one
\* that wrote later, as it computed it from what it had read, whether or not
\* the other wrote in between; and no invocation changes the version field.
C18_LaterWriteWins ==
    /\ state.version = 1
    /\ \A w \in DOMAIN workers :
           workers[w].pc = "done" => workers[w].item.version = 1
    /\ \A w, v \in DOMAIN workers :
           (Wrote(w) /\ Wrote(v) /\ workers[v].seq < workers[w].seq)
           => state = workers[w].item

\* A PATCH declaring desiredCapacity 1 has written and answered 200, and a
\* status event handled on the item read before that has written after it:
\* the item in the table holds the old desiredCapacity.
C18_Witness ==
    /\ Wrote(1) /\ Wrote(2)
    /\ workers[1].seq < workers[2].seq
    /\ workers[1].job.op = "asg" /\ workers[1].job.body.hasDesired
    /\ workers[1].item.desiredCapacity = 1
    /\ workers[1].item.scalingStatus = "Pending"
    /\ workers[2].job.op = "event"
    /\ workers[2].job.event.status = "UPDATING"
    /\ workers[2].snapshot.desiredCapacity = 2
    /\ state.desiredCapacity = 2
    /\ state.scalingStatus = "InProgress"

(***************************************************************************)
(* Further properties of the scaling activity lambda.                       *)
(***************************************************************************)
\* C21: an invocation of the scaling activity lambda whose read or write of
\* the ScalingState item fails reports a failure; it never answers 200 for an
\* item it has not put.
C21_SuccessMeansPersisted ==
    (last.op = "asg" /\ last.out.code = 200) => last.out.written

\* C25: an invocation that finds no ScalingState item for the dimension goes
\* on from an empty record instead of failing, and an item exists afterwards.
C25_AbsentRecordIsCreated ==
    (last.op = "asg" /\ last.method \in {"GET", "PATCH"} /\ ~last.pre.exists)
    => (last.out.code = 200 /\ state.exists)

\* C26: every GET or PATCH that completes and puts its item leaves
\* lastModified at the time it ran, whatever else it changed; so lastModified
\* is the time of the latest write, and the staleness branch of a GET is taken
\* only when that write is more than 25 minutes old.
C26_EveryWriteRefreshesLastModified ==
    /\ (last.op = "asg" /\ last.out.written)
       => /\ last.out.code = 200
          /\ state.lastModified = last.clock
    /\ (last.op = "asg" /\ last.out.code = 200 /\ ~last.out.written)
       => state = last.pre
    /\ state.exists => state.lastModified <= now
    /\ (Asg("GET") /\ last.out.timedOut)
       => last.clock - last.pre.lastModified > 25 * 60 * 1000

\* A GET that changes nothing but lastModified, on a Pending state polled
\* exactly 25 minutes after its latest write.
C26_Witness ==
    /\ Asg("GET") /\ last.out.written
    /\ last.pre.scalingStatus = "Pending"
    /\ last.pre.desiredCapacity # last.pre.actualCapacity
    /\ last.clock = last.pre.lastModified + 25 * 60 * 1000
    /\ ~last.out.timedOut
    /\ state = [last.pre EXCEPT !.lastModified = last.clock]

(***************************************************************************)
(* Properties of the two lambdas in operation.                              *)
(***************************************************************************)
\* C22: an invocation in which a control-plane request, the lookup of the
\* pool or of its primary raises (during update_scaling, or in the scale-down
\* branch of an IN_SERVICE event) answers 500 and puts neither item: the
\* ScalingState item is the one it found and the pool config is not written.
C22_RaiseLeavesItems ==
    last.out.raised
    => /\ last.out.code = 500
       /\ ~last.out.written /\ ~last.out.cfgWritten
       /\ state = last.pre

\* A PATCH whose second request raised after the first was made.
C22_Witness ==
    /\ last.op = "asg" /\ last.method = "PATCH"
    /\ last.out.raised /\ Len(last.out.calls) = 1
    /\ last.pre.scalingStatus = "Successful"
    /\ state = last.pre

\* C29: in every ScalingState item in the table, scalingStatus = Successful
\* implies desiredCapacity = actualCapacity.
C29_SuccessfulMeansConverged ==
    (state.exists /\ state.scalingStatus = "Successful")
    => state.desiredCapacity = state.actualCapacity

\* C29 as the code has it: a Successful item has desiredCapacity =
\* actualCapacity, or a desiredCapacity of 0 declared by a PATCH, which is
\* stored without a change of status.
C29_SuccessfulMeansConvergedOrZero ==
    (state.exists /\ state.scalingStatus = "Successful")
    => \/ state.desiredCapacity = state.actualCapacity
       \/ state.desiredCapacity = 0

\* An IN_SERVICE event that completed a scale-up declared by PATCH.
C29_Witness ==
    /\ last.op = "event" /\ last.event.status = "IN_SERVICE"
    /\ last.out.written
    /\ last.pre.scalingStatus \in {"Pending", "InProgress"}
    /\ last.pre.desiredCapacity # last.pre.actualCapacity
    /\ state.scalingStatus = "Successful"
    /\ state.desiredCapacity = state.actualCapacity

\* C24: the pool config item changes only when the rebalancer runs on
\* convergence; an IN_SERVICE event that does not reach desired = actual,
\* every other status event and every PATCH or GET leave it as it was.
C24_PoolChangesOnlyOnConvergence ==
    [][config' # config => last'.out.rebalanced]_vars

\* C24 as the code has it: only a handled IN_SERVICE event puts the pool
\* config; it sets the reporting backend's current_instance_count to the
\* reported count whether or not desired = actual is reached, changes no
\* other count, changes weights only on convergence and never changes
\* servers.  Other status events and PATCH or GET leave the item as it was.
C24_PoolChangesOnlyOnInService ==
    [][/\ config' # config
          => /\ last'.op = "event" /\ last'.event.status = "IN_SERVICE"
             /\ last'.out.code = 200 /\ last'.out.cfgWritten
       /\ config'.exists = config.exists
       /\ config'.servers = config.servers
       /\ config'.weights # config.weights => last'.out.rebalanced
       /\ \A i \in 1..Len(config.servers) :
              config'.current_instance_count[i]
                  # config.current_instance_count[i]
              => /\ config.servers[i] = last'.event.parts[2]
                 /\ config'.current_instance_count[i] = last'.event.count
      ]_vars

\* An IN_SERVICE event short of convergence has put the pool config with the
\* count it reported, moving the actual capacity.
C24_Witness ==
    /\ last.op = "event" /\ last.event.status = "IN_SERVICE"
    /\ last.out.cfgWritten /\ ~last.out.rebalanced
    /\ state.scalingStatus = "InProgress"
    /\ state.actualCapacity # last.pre.actualCapacity
    /\ config.current_instance_count[Reporting] = last.event.count

(***************************************************************************)
(* Properties of the designated primary.                                    *)
(***************************************************************************)
\* C27: from a pool config in which exactly one backend has weight 1, every
\* reachable pool whose counts are all 0 still has a backend of weight 1, and
\* a scale-up of an empty pool never fails.
C27_EmptyPoolKeepsPrimary ==
    /\ (\A i \in 1..Len(config.servers) :
            config.current_instance_count[i] = 0)
       => \E i \in 1..Len(config.servers) : config.weights[i] = 1
    /\ (/\ last.op = "asg" /\ last.out.ran /\ last.out.delta > 0
        /\ Sum(config.current_instance_count) = 0)
       => last.out.code = 200

(***************************************************************************)
(* Properties of concurrent status events.                                  *)
(***************************************************************************)
\* C30: once all the concurrent invocations have finished, the
\* current_instance_count of every backend in the pool config is the count
\* of the IN_SERVICE event handled last for that backend.
C30_ConcurrentReportsAllKept ==
    (\A v \in DOMAIN workers : workers[v].pc = "done")
    => \A w \in DOMAIN workers :
           LET ev == workers[w].job.event
           IN  (/\ workers[w].job.op = "event" /\ ev.status = "IN_SERVICE"
                /\ workers[w].code = 200
                /\ \A v \in DOMAIN workers :
                       (/\ workers[v].job.op = "event"
                        /\ workers[v].job.event.status = "IN_SERVICE"
                        /\ workers[v].job.event.parts = ev.parts)
                       => workers[v].seq <= workers[w].seq)
               => config.current_instance_count[
                      Index(config.servers, ev.parts[2])] = ev.count

(***************************************************************************)
(* Properties of the selector's last-resort branch.                         *)
(***************************************************************************)
\* C31: for every weight list whose sum passed the total_weight > 0 check,
\* negative weights included, and every counter value, the cumulative walk
\* returns inside the loop: no decision is the last-resort servers[0] with
\* the 'Used fallback server selection' warning.
C31_LastResortUnreachable ==
    \A p \in Routers :
        (Decided(p) /\ ValidCfg(router[p].cfg))
        => /\ router[p].result.ok
           /\ ~router[p].result.warning
           /\ Walk(router[p].cfg.weights,
                   Position(router[p].observed, Sum(router[p].cfg.weights)),
                   1, 0) \in 1..Len(router[p].cfg.weights)

\* A decision on a list with a negative weight whose position is the total:
\* only the last cumulative sum reaches it.
C31_Witness ==
    \E p \in Routers :
        /\ Decided(p)
        /\ router[p].cfg.weights = <<2, 0 - MaxWeight, MaxWeight + 1>>
        /\ Position(router[p].observed, Sum(router[p].cfg.weights))
               = Sum(router[p].cfg.weights)
        /\ router[p].result.server = "server3"
        /\ ~router[p].result.warning

====
